---- MODULE Spec2Model ----
(***************************************************************************)
(* Model of update-multi-stock.py: the daily reconciliation of a persisted *)
(* workbook (sheet Shares: one column per instrument, sheet Currency: one  *)
(* column per currency code, rates per 1 EUR) against a market-data        *)
(* provider.                                                               *)
(*                                                                         *)
(* Representation.                                                         *)
(*  - A Date cell is a record [k, d, m]: k = "ts" is a pandas Timestamp,   *)
(*    k = "str" is the text dd-mm-YYYY; d = 0 is NaT / a blank cell.  The  *)
(*    year is fixed (2025, not a leap year), the real calendar is kept.    *)
(*  - Prices are integer cents, provider closes are 1/1000 units, rates    *)
(*    are 1/10000 units (4 decimals), provider rates 1/100000 units.       *)
(*  - A price cell is [val, conv]: conv counts the USD->EUR conversions    *)
(*    that produced the stored value (history, not program state).         *)
(***************************************************************************)
EXTENDS Integers, Sequences, FiniteSets, TLC

\* ---------------------------------------------------------------- bounds
\* Last calendar day (day of January) the provider knows and "now" can be.
LastDay == 14
\* Number of consecutive runs of main() that are explored.
MaxRuns == 2

\* ------------------------------------------------------ program constants
DAYS_THRESHOLD == 1
LOOKBACK_DAYS == 10
\* pandas' missing value in a numeric column (pd.isna / pd.notna)
NaN == -1

\* --------------------------------------------------------------- calendar
DaysInMonth(m) ==
    IF m = 2 THEN 28 ELSE IF m \in {4, 6, 9, 11} THEN 30 ELSE 31

RECURSIVE DaysBefore(_)
DaysBefore(m) == IF m <= 1 THEN 0 ELSE DaysBefore(m - 1) + DaysInMonth(m - 1)

\* day of the year of a valid calendar date
Ord(d, m) == DaysBefore(m) + d

ValidDM(d, m) == m \in 1..12 /\ d >= 1 /\ d <= DaysInMonth(m)

MonthOf(o) == CHOOSE m \in 1..12 : DaysBefore(m) < o /\ o <= DaysBefore(m) + DaysInMonth(m)

\* datetime.weekday(): Monday = 0 ... Sunday = 6 (1 January 2025 is a Wednesday)
Weekday(o) == (o + 1) % 7

\* ------------------------------------------------------------- Date cells
NaT == [k |-> "ts", d |-> 0, m |-> 0]
NoText == [k |-> "str", d |-> 0, m |-> 0]
Ts(d, m) == [k |-> "ts", d |-> d, m |-> m]
Str(d, m) == [k |-> "str", d |-> d, m |-> m]

IsNull(x) == x.d = 0

\* ordinal of a Timestamp (0 for NaT)
OrdOf(x) == IF IsNull(x) THEN 0 ELSE Ord(x.d, x.m)

\* Timestamp of an ordinal of the year
TsOfOrd(o) == LET m == MonthOf(o) IN Ts(o - DaysBefore(m), m)

\* pd.to_datetime(x, format='%d-%m-%Y', errors='coerce'): a Timestamp passes
\* through, a text is read day first, anything else is NaT
to_datetime_dmy(x) ==
    IF x.k = "ts" THEN x
    ELSE IF ~IsNull(x) /\ ValidDM(x.d, x.m) THEN Ts(x.d, x.m) ELSE NaT

\* Timestamp.strftime('%d-%m-%Y'); Series.dt.strftime gives NaN for NaT
strftime_dmy(x) == IF IsNull(x) THEN NoText ELSE Str(x.d, x.m)

\* dateutil's reading of one text dd-mm-YYYY with dayfirst=False: the first
\* field is the month when that gives a calendar date, else the day
parse_month_first(x) ==
    IF IsNull(x) THEN NaT
    ELSE IF ValidDM(x.m, x.d) THEN Ts(x.m, x.d)
    ELSE IF ValidDM(x.d, x.m) THEN Ts(x.d, x.m) ELSE NaT

\* strict '%m-%d-%Y' (the format pandas 2 guesses from an ambiguous first text)
parse_strict_mdy(x) ==
    IF IsNull(x) THEN NaT
    ELSE IF ValidDM(x.m, x.d) THEN Ts(x.m, x.d) ELSE NaT

\* pd.to_datetime(column, errors='coerce') with no format, on a column given
\* as the sequence of its Date cells.  pandas 2 guesses one format from the
\* first non-null element when that element is a text, and reads every
\* element with it; otherwise (pandas 1, or a Timestamp first) every text is
\* read on its own, month first.
FirstNonNull(col) ==
    IF \E i \in 1..Len(col) : ~IsNull(col[i])
    THEN CHOOSE i \in 1..Len(col) :
            ~IsNull(col[i]) /\ \A j \in 1..(i - 1) : IsNull(col[j])
    ELSE 0

to_datetime_guess(col, p2) ==
    LET f == FirstNonNull(col)
        guessed == p2 /\ f > 0 /\ col[f].k = "str"
        mdy == guessed /\ ValidDM(col[f].m, col[f].d)
    IN [i \in 1..Len(col) |->
          IF col[i].k = "ts" THEN col[i]
          ELSE IF ~guessed THEN parse_month_first(col[i])
          ELSE IF mdy THEN parse_strict_mdy(col[i])
          ELSE to_datetime_dmy(col[i])]

\* -------------------------------------------------------------- instruments
\* STOCKS (in dict order) and USD_STOCKS as read_stocks_from_metadata builds
\* them: a ticker ending in .DE, .L or .PA is EUR based, any other is USD.
STOCKS == <<"Allianz Share", "IBM Share">>
StockSet == {STOCKS[i] : i \in 1..Len(STOCKS)}
TickerOf(s) == IF s = "Allianz Share" THEN "ALV.DE" ELSE "IBM"
USD_STOCKS == {s \in StockSet : TickerOf(s) \notin {"ALV.DE"}}

\* currency columns of the Currency sheet, in column order
CURRENCIES == <<"USD", "GBP">>
CurrencySet == {CURRENCIES[i] : i \in 1..Len(CURRENCIES)}
get_yfinance_ticker(c) == IF c = "USD" THEN "EURUSD=X" ELSE "EURGBP=X"

\* ------------------------------------------------------------ arithmetic
\* (a division that drops the fraction instead of rounding)
TruncDiv(n, q) == n \div q

\* n / q rounded to the nearest integer, ties to even (Python's round)
RoundDiv(n, q) ==
    LET f == n \div q
        r == n % q
    IN IF 2 * r < q THEN f
       ELSE IF 2 * r > q THEN f + 1
       ELSE IF f % 2 = 0 THEN f ELSE f + 1

\* an exchange rate EUR per USD as the fraction num / den
NoRate == [k |-> "none", num |-> 0, den |-> 0]
Raised == [k |-> "raise", num |-> 0, den |-> 0]
Rate(num, den) == [k |-> "rate", num |-> num, den |-> den]

\* a cell of a numeric column that holds text; pd.to_numeric(errors='coerce')
Junk == -2
to_numeric(x) == IF x = Junk THEN NaN ELSE x

\* price cells
NoCell == [val |-> NaN, conv |-> 0]
Cell(v) == [val |-> v, conv |-> 0]
notna(c) == c.val # NaN

\* ------------------------------------------------------ get_usd_to_eur_rate
SeqMax(S) == CHOOSE x \in S : \A y \in S : y <= x

\* (a lookup that leaves out the row dated on the target itself)
AvailableRowsStrict(currency_df, target) ==
    {i \in 1..Len(currency_df) :
        LET dt == to_datetime_dmy(currency_df[i].Date)
        IN ~IsNull(dt) /\ ~IsNull(target) /\ OrdOf(dt) < OrdOf(target)}

\* rows of the table dated at or before the target (NaT compares False)
AvailableRows(currency_df, target) ==
    {i \in 1..Len(currency_df) :
        LET dt == to_datetime_dmy(currency_df[i].Date)
        IN ~IsNull(dt) /\ ~IsNull(target) /\ OrdOf(dt) <= OrdOf(target)}

\* available_dates['Date'].idxmax(): the first row holding the latest date
IdxMax(currency_df, rows) ==
    LET top == SeqMax({OrdOf(to_datetime_dmy(currency_df[i].Date)) : i \in rows})
    IN CHOOSE i \in rows :
          /\ OrdOf(to_datetime_dmy(currency_df[i].Date)) = top
          /\ \A j \in rows : OrdOf(to_datetime_dmy(currency_df[j].Date)) = top => i <= j

\* (a lookup that passes over the rows without a USD rate)
most_recent_row_with_usd(currency_df, date_str) ==
    LET rows == {i \in AvailableRows(currency_df, to_datetime_dmy(date_str)) :
                    currency_df[i].v["USD"] # NaN}
    IN IF Len(currency_df) = 0 \/ rows = {} THEN 0 ELSE IdxMax(currency_df, rows)

\* index of the row the rate is read from, 0 when there is none
most_recent_row(currency_df, date_str) ==
    LET rows == AvailableRows(currency_df, to_datetime_dmy(date_str))
    IN IF Len(currency_df) = 0 \/ rows = {} THEN 0 ELSE IdxMax(currency_df, rows)

RateOfRow(currency_df, i) ==
    IF i = 0 THEN NoRate
    ELSE LET usd == currency_df[i].v["USD"]
         IN IF usd = NaN THEN NoRate
            ELSE IF usd = 0 \/ usd = Junk THEN Raised
            ELSE Rate(10000, usd)

get_usd_to_eur_rate(currency_df, date_str) ==
    RateOfRow(currency_df, most_recent_row(currency_df, date_str))

\* ------------------------------------------------------- convert_usd_to_eur
\* round(float(usd_price) * exchange_rate, 2) on cents
convert_usd_to_eur(usd_price, exchange_rate) ==
    IF exchange_rate.k # "rate" \/ usd_price = NaN THEN usd_price
    ELSE RoundDiv(usd_price * exchange_rate.num, exchange_rate.den)

\* ------------------------------------------------------------------ state
VARIABLES
    pc,                 \* position of the run (or of the call, in a unit specification)
    run,                \* number of the run of main()
    today,              \* datetime.now(), as the day of the year
    pandas2,            \* the installed pandas guesses one format per column
    failing,            \* tickers whose download raises
    stockAvail,         \* ticker -> days the market-data provider has a close for
    fxAvail,            \* fx ticker -> days the provider has a rate for
    persistedMeta,      \* rows 1-2 of sheet Shares of hist_base.xlsx (under the header)
    persistedShares,    \* the rows of sheet Shares below them
    persistedCurrency,  \* rows of sheet Currency of hist_base.xlsx
    shares_df,          \* shares_df_existing
    currency_df,        \* currency_df_existing
    last_date,          \* last_date of main (day of the year)
    gap_stats,
    currency_gap_stats,
    new_stock_records,
    new_currency_data,
    shares_df_updated,
    currency_df_updated,
    conversion_stats,
    arg,                \* argument of a call checked on its own
    ret,                \* what that call returned
    hist                \* history of the run: what the claims are stated on

provVars == <<today, pandas2, failing, stockAvail, fxAvail>>
fileVars == <<persistedMeta, persistedShares, persistedCurrency>>
mainVars == <<shares_df, currency_df, last_date, gap_stats, currency_gap_stats,
              new_stock_records, new_currency_data, shares_df_updated,
              currency_df_updated, conversion_stats>>
vars == <<pc, run, provVars, fileVars, mainVars, arg, ret, hist>>

\* ----------------------------------------------------------------- provider
\* The close the provider reports for a ticker on a day (1/1000 units for a
\* stock, 1/100000 units for a currency pair): one value per ticker and day.
Close(ticker, o) ==
    IF ticker = "ALV.DE" THEN 300000 + 1112 * o
    ELSE IF ticker = "IBM" THEN 200000 + 2336 * o
    ELSE IF ticker = "EURUSD=X" THEN 108000 + 112 * o
    ELSE 85000 + 36 * o

\* yf.download(ticker, start=, end=): the index of the frame it returns, the
\* days the provider has in [start, end); a day after now has no data
yf_download(avail, ticker, start, end) ==
    {o \in avail[ticker] : start <= o /\ o < end /\ o <= today}

\* round(float(row['Close']), 2) and round(float(...), 4)
ClosePrice(ticker, o) == RoundDiv(Close(ticker, o), 10)
CloseRate(ticker, o) == RoundDiv(Close(ticker, o), 10)

\* ------------------------------------------------- fill_missing_stock_data
\* Series.max() of the parsed dates, 0 when there is none
MaxOrd(df) ==
    LET S == {OrdOf(to_datetime_dmy(df[i].Date)) : i \in 1..Len(df)} \ {0}
    IN IF S = {} THEN 0 ELSE SeqMax(S)

\* recent_period_mask: the rows dated in the lookback period
RecentRows(df, start) ==
    {i \in 1..Len(df) :
        LET dt == to_datetime_dmy(df[i].Date)
        IN ~IsNull(dt) /\ OrdOf(dt) >= start}

\* (a fill that never looks at the exact day)
FillDayBefore(data, o) ==
    LET before == {x \in data : x < o}
    IN IF before = {} THEN 0 ELSE SeqMax(before)

\* the provider day whose close fills a gap on day o: the day itself when the
\* provider has it, else the latest provider day before it, else none (0)
FillDay(data, o) ==
    IF o \in data THEN o
    ELSE LET before == {x \in data : x <= o}
         IN IF before = {} THEN 0 ELSE SeqMax(before)

\* (a test that takes every cell of a recent row for a gap)
IsGapAny(df, start, i, s) == i \in RecentRows(df, start)

\* lines 556-559: the empty cells of the rows of the lookback period
IsGap(df, start, i, s) == i \in RecentRows(df, start) /\ ~notna(df[i].v[s])

\* Returns [df, stats, raised] and, for the claims, which cells were filled
\* from which provider day and which were converted.
fill_missing_stock_data(df, cur, lookback_days) ==
    LET last == MaxOrd(df)
        start == last - lookback_days
        err(s) == TickerOf(s) \in failing
        data(s) == IF err(s) THEN {}
                   ELSE yf_download(stockAvail, TickerOf(s), start, last + 1)
        gap(i, s) == IsGap(df, start, i, s)
        day(i, s) == IF err(s) \/ data(s) = {} \/ ~gap(i, s) THEN 0
                     ELSE FillDay(data(s), OrdOf(to_datetime_dmy(df[i].Date)))
        cells == (1..Len(df)) \X StockSet
        filled == {c \in cells : day(c[1], c[2]) > 0}
        unfilled == {c \in cells :
                        /\ ~err(c[2]) /\ data(c[2]) # {}
                        /\ gap(c[1], c[2]) /\ day(c[1], c[2]) = 0}
        rate(i) == get_usd_to_eur_rate(cur, df[i].Date)
        converted == {c \in filled : c[2] \in USD_STOCKS /\ rate(c[1]).k = "rate"}
        raises == \E c \in filled : c[2] \in USD_STOCKS /\ rate(c[1]).k = "raise"
        price(i, s) == ClosePrice(TickerOf(s), day(i, s))
        cell(i, s) ==
            IF <<i, s>> \notin filled THEN df[i].v[s]
            ELSE IF <<i, s>> \in converted
                 THEN [val |-> convert_usd_to_eur(price(i, s), rate(i)), conv |-> 1]
                 ELSE Cell(price(i, s))
    IN IF Len(df) = 0
       THEN [df |-> df, stats |-> [filled |-> 0, skipped |-> 0], raised |-> FALSE,
             filled |-> {}, days |-> [c \in {} |-> 0], converted |-> {}]
       ELSE [df |-> [i \in 1..Len(df) |->
                        [Date |-> df[i].Date, v |-> [s \in StockSet |-> cell(i, s)]]],
             stats |-> [filled |-> Cardinality(filled),
                        skipped |-> Cardinality({s \in StockSet : err(s)})
                                    + Cardinality(unfilled)],
             raised |-> (last = 0) \/ raises,
             filled |-> filled,
             days |-> [c \in filled |-> day(c[1], c[2])],
             converted |-> converted]

\* ---------------------------------------------- fill_missing_currency_data
SetMin(S) == CHOOSE x \in S : \A y \in S : x <= y

\* the elements of a set of days, ascending
RECURSIVE Ascending(_)
Ascending(S) == IF S = {} THEN <<>> ELSE <<SetMin(S)>> \o Ascending(S \ {SetMin(S)})

\* sort key of a parsed date: NaT sorts last
SortKey(t) == IF IsNull(t) THEN 1000 ELSE OrdOf(t)

\* DataFrame.sort_values('Date_parsed') on rows with their keys; rows with
\* the same key keep their order
RECURSIVE SortRows(_, _)
SortRows(rows, keys) ==
    IF Len(rows) = 0 THEN <<>>
    ELSE LET least == SetMin({keys[i] : i \in 1..Len(rows)})
             i == CHOOSE j \in 1..Len(rows) :
                     keys[j] = least /\ \A h \in 1..(j - 1) : keys[h] # least
             drop(q) == [h \in 1..(Len(q) - 1) |-> IF h < i THEN q[h] ELSE q[h + 1]]
         IN <<rows[i]>> \o SortRows(drop(rows), drop(keys))

\* lines 724-731: the Date column is read again with no format, the rows are
\* sorted by it and the column is written back as text
Renormalise(df) ==
    LET parsed == to_datetime_guess([i \in 1..Len(df) |-> df[i].Date], pandas2)
        stamped == [i \in 1..Len(df) |->
                      [Date |-> strftime_dmy(parsed[i]), v |-> df[i].v]]
    IN SortRows(stamped, [i \in 1..Len(df) |-> SortKey(parsed[i])])

\* the cached day whose rate fills a missing day: the day itself or none (0)
CachedDay(cache, o) == IF o \in cache THEN o ELSE 0

\* missing_dates: the weekdays of the lookback period with no row, and every
\* weekday after the last date up to today
MissingDates(df, last, lookback_days) ==
    LET have == {OrdOf(to_datetime_dmy(df[i].Date)) : i \in 1..Len(df)}
    IN {o \in (last - lookback_days)..last : Weekday(o) < 5 /\ o \notin have}
       \cup {o \in (last + 1)..today : Weekday(o) < 5}

\* Returns [df, stats, raised] and, for the claims, the missing days and the
\* rows appended for them (before the Date column is read again).
fill_missing_currency_data(df, lookback_days) ==
    LET last == MaxOrd(df)
        missing == MissingDates(df, last, lookback_days)
        cache(c) ==
            IF get_yfinance_ticker(c) \in failing \/ missing = {} THEN {}
            ELSE yf_download(fxAvail, get_yfinance_ticker(c),
                             SetMin(missing), SeqMax(missing) + 1)
        day(o, c) == CachedDay(cache(c), o)
        got(o) == \E c \in CurrencySet : day(o, c) > 0
        order == Ascending({o \in missing : got(o)})
        new_rows == [n \in 1..Len(order) |->
                       [Date |-> strftime_dmy(TsOfOrd(order[n])),
                        v |-> [c \in CurrencySet |->
                                 IF day(order[n], c) > 0
                                 THEN CloseRate(get_yfinance_ticker(c), day(order[n], c))
                                 ELSE NaN]]]
        none == [filled |-> 0, skipped |-> 0]
    IN IF Len(df) = 0
       THEN [df |-> df, stats |-> none, raised |-> FALSE,
             missing |-> {}, new_rows |-> <<>>]
       ELSE IF last = 0
       THEN [df |-> df, stats |-> none, raised |-> TRUE,
             missing |-> {}, new_rows |-> <<>>]
       ELSE IF missing = {}
       THEN [df |-> df, stats |-> none, raised |-> FALSE,
             missing |-> {}, new_rows |-> <<>>]
       ELSE [df |-> Renormalise(df \o new_rows),
             stats |-> [filled |-> Len(order),
                        skipped |-> Cardinality(missing) - Len(order)],
             raised |-> FALSE,
             missing |-> missing, new_rows |-> new_rows]

\* ---------------------------------------------------------- initial values
NoStats == [filled |-> 0, skipped |-> 0]
NoConversions == [converted |-> 0, skipped_no_rate |-> 0, skipped_missing_price |-> 0]

\* the locals of main() other than the two loaded tables, before it runs
LocalsIdle ==
    /\ last_date = 0
    /\ gap_stats = NoStats /\ currency_gap_stats = NoStats
    /\ new_stock_records = <<>> /\ new_currency_data = <<>>
    /\ shares_df_updated = <<>> /\ currency_df_updated = <<>>
    /\ conversion_stats = NoConversions

\* a provider that has nothing, for the calls that never download
NoProvider ==
    /\ today = LastDay /\ pandas2 = FALSE /\ failing = {}
    /\ stockAvail = [t \in {TickerOf(x) : x \in StockSet} |-> {}]
    /\ fxAvail = [t \in {get_yfinance_ticker(c) : c \in CurrencySet} |-> {}]

\* all sequences over S of length at most n
RECURSIVE SeqsUpTo(_, _)
SeqsUpTo(S, n) ==
    IF n = 0 THEN {<<>>}
    ELSE LET shorter == SeqsUpTo(S, n - 1)
         IN shorter \cup {Append(q, x) : q \in shorter, x \in S}

\* ============================================ get_usd_to_eur_rate on its own
LookupMaxRows == 3

LookupRows ==
    {[Date |-> d, v |-> [c \in CurrencySet |-> IF c = "USD" THEN u ELSE 8500]] :
        d \in {Str(1, 1), Str(3, 1), Str(5, 1), NoText},
        u \in {NaN, 10800, 11000}}

LookupTargets ==
    {Str(1, 1), Str(2, 1), Str(4, 1), Str(5, 1), Str(6, 1), Ts(4, 1), NoText}

InitLookup ==
    /\ pc = "lookup" /\ run = 0
    /\ NoProvider
    /\ persistedMeta = <<>> /\ persistedShares = <<>> /\ persistedCurrency = <<>>
    /\ shares_df = <<>> /\ LocalsIdle
    /\ currency_df \in SeqsUpTo(LookupRows, LookupMaxRows)
    /\ arg \in LookupTargets
    /\ ret = NoRate
    /\ hist = <<>>

LookupCall ==
    /\ pc = "lookup"
    /\ ret' = get_usd_to_eur_rate(currency_df, arg)
    /\ pc' = "lookup_done"
    /\ UNCHANGED <<run, provVars, fileVars, mainVars, arg, hist>>

NextLookup == LookupCall

SpecLookup == InitLookup /\ [][NextLookup]_vars

\* the rows a lookup may use: those with a date, dated at or before the target
LookupCandidates ==
    {i \in 1..Len(currency_df) :
        /\ ~IsNull(to_datetime_dmy(currency_df[i].Date))
        /\ ~IsNull(to_datetime_dmy(arg))
        /\ OrdOf(to_datetime_dmy(currency_df[i].Date)) <= OrdOf(to_datetime_dmy(arg))}

LookupRowRate(i) ==
    IF currency_df[i].v["USD"] = NaN THEN NoRate
    ELSE Rate(10000, currency_df[i].v["USD"])

\* C1: the as-of lookup returns absent when no row is dated at or before the
\* target (or the table is empty); otherwise what it returns is read from a
\* row whose date is the latest among the rows dated at or before the target,
\* so never from a row dated after the target.
C1_AsOfLookup ==
    pc = "lookup_done" =>
        /\ LookupCandidates = {} => ret = NoRate
        /\ LookupCandidates # {} =>
              \E i \in LookupCandidates :
                 /\ \A j \in LookupCandidates :
                       OrdOf(to_datetime_dmy(currency_df[j].Date))
                          <= OrdOf(to_datetime_dmy(currency_df[i].Date))
                 /\ ret = LookupRowRate(i)

\* rows on 1, 3 and 5 January, a lookup for 4 January answered from the row of
\* 3 January although the row of 5 January holds another rate
C1_Witness ==
    /\ pc = "lookup_done"
    /\ Len(currency_df) = 3
    /\ {currency_df[i].Date : i \in 1..3} = {Str(1, 1), Str(3, 1), Str(5, 1)}
    /\ arg = Str(4, 1)
    /\ \E i \in 1..3 :
          /\ currency_df[i].Date = Str(3, 1)
          /\ currency_df[i].v["USD"] = 11000
          /\ ret = Rate(10000, 11000)
    /\ \E i \in 1..3 : currency_df[i].Date = Str(5, 1) /\ currency_df[i].v["USD"] = 10800

\* ======================================== fill_missing_stock_data on its own
\* a stored price of an instrument on a day (cents)
SeedPrice(s, o) == IF s = "Allianz Share" THEN 30000 + o ELSE 18000 + o

\* a Shares table with one row per day of `days` (ascending), the cells named
\* in `holes` empty
SharesTable(days, holes) ==
    LET order == Ascending(days)
    IN [n \in 1..Len(order) |->
          [Date |-> TsOfOrd(order[n]),
           v |-> [s \in StockSet |->
                    IF <<order[n], s>> \in holes THEN NoCell
                    ELSE Cell(SeedPrice(s, order[n]))]]]

\* a Currency table with one row per day of `days`, every rate present
RatesTable(days) ==
    LET order == Ascending(days)
    IN [n \in 1..Len(order) |->
          [Date |-> TsOfOrd(order[n]),
           v |-> [c \in CurrencySet |->
                    IF c = "USD" THEN 10800 + 10 * order[n] ELSE 8500 + order[n]]]]

FillStockDays == {2, 8, 10, 13}

InitFillStock ==
    /\ pc = "fill_stock" /\ run = 0
    /\ today = LastDay /\ pandas2 = FALSE
    /\ failing \in {{}, {"ALV.DE"}, {"IBM"}}
    /\ \E a \in {{}, {8, 10, 13}}, b \in SUBSET {8, 9, 10} :
          stockAvail = [t \in {"ALV.DE", "IBM"} |-> IF t = "IBM" THEN b ELSE a]
    /\ fxAvail = [t \in {get_yfinance_ticker(c) : c \in CurrencySet} |-> {}]
    /\ persistedMeta = <<>> /\ persistedShares = <<>> /\ persistedCurrency = <<>>
    /\ \E days \in SUBSET FillStockDays \ {{}} :
          \E holes \in SUBSET (days \X StockSet) :
             shares_df = SharesTable(days, holes)
    /\ currency_df \in {<<>>, RatesTable({8, 13})}
    /\ LocalsIdle
    /\ arg = LOOKBACK_DAYS
    /\ ret = <<>>
    /\ hist = <<>>

FillStockCall ==
    /\ pc = "fill_stock"
    /\ ret' = fill_missing_stock_data(shares_df, currency_df, arg)
    /\ pc' = "fill_stock_done"
    /\ UNCHANGED <<run, provVars, fileVars, mainVars, arg, hist>>

NextFillStock == FillStockCall

SpecFillStock == InitFillStock /\ [][NextFillStock]_vars

\* what the claims about the call are stated on ------------------------------
\* most recent date of the series, and the provider's bulk response for an
\* instrument over [M - W, M]
FS_M == MaxOrd(shares_df)
FS_Response(s) ==
    {o \in stockAvail[TickerOf(s)] : FS_M - arg <= o /\ o <= FS_M /\ o <= today}
FS_RowDay(i) == OrdOf(to_datetime_dmy(shares_df[i].Date))

\* rows of the window in which the instrument's cell is empty, for the
\* instruments whose download returned
FS_GapCells ==
    {c \in (1..Len(shares_df)) \X StockSet :
        /\ FS_RowDay(c[1]) >= FS_M - arg
        /\ ~notna(shares_df[c[1]].v[c[2]])
        /\ TickerOf(c[2]) \notin failing}

\* the close of a provider day as the call stores it: in EUR for a USD
\* instrument when the rate table has a rate as of the row's date
FS_Stored(c, o) ==
    LET rate == get_usd_to_eur_rate(currency_df, shares_df[c[1]].Date)
    IN IF c[2] \in USD_STOCKS /\ rate.k = "rate"
       THEN RoundDiv(ClosePrice(TickerOf(c[2]), o) * rate.num, rate.den)
       ELSE ClosePrice(TickerOf(c[2]), o)

\* the trading days of [M - W, M] on which an instrument has no observation,
\* with or without a row, and for which the provider returned a close at or
\* before the day (the call had what it needs to fill them)
C6_Gaps ==
    {g \in ((FS_M - arg)..FS_M) \X StockSet :
        /\ Weekday(g[1]) < 5
        /\ TickerOf(g[2]) \notin failing
        /\ \E o \in FS_Response(g[2]) : o <= g[1]
        /\ ~\E i \in 1..Len(shares_df) :
              FS_RowDay(i) = g[1] /\ notna(shares_df[i].v[g[2]])}

\* those of them still without an observation in the table the call returns
C6_StillOpen ==
    {g \in C6_Gaps :
        ~\E i \in 1..Len(ret.df) :
            OrdOf(to_datetime_dmy(ret.df[i].Date)) = g[1] /\ notna(ret.df[i].v[g[2]])}

\* C6: every calendar date of [M - W, M] on which an instrument has no
\* observation, a date with no row included, is filled or counted as skipped:
\* the gaps still open after the call are no more than the skips it counted.
C6_EveryGapFilledOrSkipped ==
    pc = "fill_stock_done" => Cardinality(C6_StillOpen) <= ret.stats.skipped

\* the gaps for which the response has no date at or before the gap date
C7_NoEarlier ==
    {c \in FS_GapCells : \A o \in FS_Response(c[2]) : o > FS_RowDay(c[1])}

\* C7: a gap whose date the response lacks is filled from the closest response
\* date before it; a gap with no response date at or before it stays empty and
\* is counted as skipped.
C7_FallbackOrSkipped ==
    pc = "fill_stock_done" =>
        /\ \A c \in FS_GapCells :
              LET before == {o \in FS_Response(c[2]) : o < FS_RowDay(c[1])}
              IN (FS_RowDay(c[1]) \notin FS_Response(c[2]) /\ before # {}) =>
                    ret.df[c[1]].v[c[2]].val = FS_Stored(c, SeqMax(before))
        /\ \A c \in C7_NoEarlier : ~notna(ret.df[c[1]].v[c[2]])
        /\ Cardinality(C7_NoEarlier) <= ret.stats.skipped

\* the gaps on D-2 for which the response holds a close of D-2
C8_ExactCells ==
    {c \in FS_GapCells :
        FS_RowDay(c[1]) = FS_M - 2 /\ FS_RowDay(c[1]) \in FS_Response(c[2])}

C10_Failed ==
    {s \in StockSet :
        /\ TickerOf(s) \in failing \/ FS_Response(s) = {}
        /\ \E i \in 1..Len(shares_df) :
              FS_RowDay(i) >= FS_M - arg /\ ~notna(shares_df[i].v[s])}

\* C10: an error or an empty response for one instrument is caught and counted
\* as skipped, the other instruments are still filled, and nothing propagates.
C10_FailureCountedAndIsolated ==
    pc = "fill_stock_done" =>
        /\ ~ret.raised
        /\ Cardinality(C10_Failed) <= ret.stats.skipped
        /\ \A c \in FS_GapCells :
              FS_RowDay(c[1]) \in FS_Response(c[2]) => notna(ret.df[c[1]].v[c[2]])

\* ===================================== fill_missing_currency_data on its own
\* the Date column of a table as text, as main() hands it to the second call
AsText(df) == [i \in 1..Len(df) |-> [Date |-> strftime_dmy(df[i].Date), v |-> df[i].v]]

InitFillCurrency ==
    /\ pc = "fill_currency" /\ run = 0
    /\ today \in {13, LastDay}
    /\ pandas2 \in BOOLEAN
    /\ failing \in {{}, {"EURUSD=X"}, {"EURGBP=X"}}
    /\ stockAvail = [t \in {TickerOf(x) : x \in StockSet} |-> {}]
    /\ \E u \in SUBSET {9, 10, 13, 14}, g \in {{}, {10}, {9, 10, 13, 14}} :
          fxAvail = [t \in {"EURUSD=X", "EURGBP=X"} |-> IF t = "EURUSD=X" THEN u ELSE g]
    /\ persistedMeta = <<>> /\ persistedShares = <<>> /\ persistedCurrency = <<>>
    /\ shares_df = <<>>
    /\ \E days \in SUBSET {8, 9, 10, 13} \ {{}} :
          currency_df \in {RatesTable(days), AsText(RatesTable(days))}
    /\ LocalsIdle
    /\ arg = LOOKBACK_DAYS
    /\ ret = <<>>
    /\ hist = <<>>

FillCurrencyCall ==
    /\ pc = "fill_currency"
    /\ ret' = fill_missing_currency_data(currency_df, arg)
    /\ pc' = "fill_currency_done"
    /\ UNCHANGED <<run, provVars, fileVars, mainVars, arg, hist>>

NextFillCurrency == FillCurrencyCall

SpecFillCurrency == InitFillCurrency /\ [][NextFillCurrency]_vars

\* the download cached for a currency: the provider's days over the span of
\* the missing dates, nothing when the download raised
FC_Cache(c) ==
    IF get_yfinance_ticker(c) \in failing \/ ret.missing = {} THEN {}
    ELSE {o \in fxAvail[get_yfinance_ticker(c)] :
             SetMin(ret.missing) <= o /\ o <= SeqMax(ret.missing) /\ o <= today}

\* the rate the call resolved for a missing day and a currency (NaN: none)
FC_Resolved(o, c) ==
    IF o < 1 \/ o > 365 THEN NaN
    ELSE IF \E n \in 1..Len(ret.new_rows) : ret.new_rows[n].Date = strftime_dmy(TsOfOrd(o))
    THEN LET n == CHOOSE k \in 1..Len(ret.new_rows) :
                     ret.new_rows[k].Date = strftime_dmy(TsOfOrd(o))
         IN ret.new_rows[n].v[c]
    ELSE NaN

\* C9: each missing date is resolved per currency with the exact/fallback
\* policy of the prices: the exact-date rate of the cached download when it is
\* there, otherwise the rate of the closest cached date at or before the
\* missing date; unresolved only when no cached date at or before it exists.
C9_ExactOrFallbackPerCurrency ==
    pc = "fill_currency_done" =>
        \A o \in ret.missing : \A c \in CurrencySet :
            LET before == {x \in FC_Cache(c) : x <= o}
            IN IF before = {} THEN FC_Resolved(o, c) = NaN
               ELSE FC_Resolved(o, c) = CloseRate(get_yfinance_ticker(c), SeqMax(before))

\* ================================================================== main()
\* hasattr(df['Date'], 'dt'): the Date column holds Timestamps
HasDt(df) == Len(df) > 0 /\ \A i \in 1..Len(df) : df[i].Date.k = "ts"

\* df['Date'].dt.strftime('%d-%m-%Y') if the column has .dt, else astype(str)
DateAsText(df) ==
    [i \in 1..Len(df) |->
        [Date |-> IF df[i].Date.k = "ts" THEN strftime_dmy(df[i].Date) ELSE df[i].Date,
         v |-> df[i].v]]

\* df['Date'] = pd.to_datetime(df['Date'], format='%d-%m-%Y', errors='coerce')
DateParsed(df) ==
    [i \in 1..Len(df) |-> [Date |-> to_datetime_dmy(df[i].Date), v |-> df[i].v]]

\* the rows of a table picked by a set of positions, in their order
RECURSIVE Pick(_, _, _)
Pick(df, keep, i) ==
    IF i > Len(df) THEN <<>>
    ELSE (IF i \in keep THEN <<df[i]>> ELSE <<>>) \o Pick(df, keep, i + 1)

\* (a merge in which the last row of a date takes over, cell by cell, what
\* it lacks from the earlier rows of the date)
MergeCombine(existing, incoming) ==
    LET all == existing \o incoming
        absent(k, x) == IF k \in StockSet THEN x.val = NaN ELSE x = NaN
        older(i, k) == {j \in 1..(i - 1) :
                          all[j].Date = all[i].Date /\ ~absent(k, all[j].v[k])}
        cell(i, k) == IF absent(k, all[i].v[k]) /\ older(i, k) # {}
                      THEN all[SeqMax(older(i, k))].v[k] ELSE all[i].v[k]
        rows == [i \in 1..Len(all) |->
                    [Date |-> all[i].Date, v |-> [k \in DOMAIN all[i].v |-> cell(i, k)]]]
    IN Pick(rows, {i \in 1..Len(all) :
                      \A j \in (i + 1)..Len(all) : all[j].Date # all[i].Date}, 1)

\* (a merge in which the existing row wins)
MergeKeepFirst(existing, incoming) ==
    LET all == existing \o incoming
    IN Pick(all, {i \in 1..Len(all) : \A j \in 1..(i - 1) : all[j].Date # all[i].Date}, 1)

\* pd.concat([existing, incoming]).drop_duplicates(subset=["Date"], keep="last")
MergeKeepLast(existing, incoming) ==
    LET all == existing \o incoming
    IN Pick(all, {i \in 1..Len(all) :
                     \A j \in (i + 1)..Len(all) : all[j].Date # all[i].Date}, 1)

\* the currency columns a table has rows for
ColumnsOf(df) == UNION {DOMAIN df[i].v : i \in 1..Len(df)}

\* (a column list that is the configured one whatever the table holds)
ConfiguredCurrencies(df) == CurrencySet

\* lines 881-882, 1003: the currency columns of a rate table; an empty table
\* is replaced by one with the Date column only
ExistingCurrencies(df) == IF Len(df) = 0 THEN {} ELSE CurrencySet

\* history of a run, for the claims
NewHist(prev) ==
    [conversions |-> 0,        \* USD->EUR conversions done so far in this run
     rate_filled |-> FALSE,    \* fill_missing_currency_data has been called
     merged |-> FALSE,         \* step 6 has merged the new records
     attempted |-> FALSE,      \* step 3 found the data not current
     current |-> FALSE,        \* step 3 found the data current
     columns |-> {},           \* currency columns of the rate table as loaded
     exit |-> -1,              \* exit code of the process once it has ended
     files_created |-> 0,      \* projection files the run has written
     fx_queried |-> {},        \* currencies whose ticker step 5 downloaded for today
     snapshot_for |-> {},      \* currencies whose rate of today came from the snapshot
     prev |-> prev]            \* the files, the day and the outage the run before ended with

\* the two metadata rows of sheet Shares: company names and tickers
MetaRow(label) == [Date |-> NoText, v |-> [s \in StockSet |-> NoCell], label |-> label]
DefaultMeta == <<MetaRow("Company"), MetaRow("Ticker")>>

\* lines 176-182: the fallback writes the header and the data rows only
FallbackRows(metadata_rows) == <<>>

\* write_excel_with_metadata: the workbook after the write.  The metadata are
\* rows 1-2 of the file as it is (lines 121-131), the defaults when the file
\* has fewer than two rows under its header or cannot be read; when the write
\* raises, the fallback is taken.  An empty rate table writes no Currency
\* sheet.
write_excel_with_metadata(shares, currency) ==
    LET base_data == IF "READ" \in failing THEN <<>>
                     ELSE persistedMeta \o persistedShares
        metadata_rows == IF Len(base_data) >= 2 THEN SubSeq(base_data, 1, 2)
                         ELSE DefaultMeta
    IN [meta |-> IF "XLSX" \in failing THEN FallbackRows(metadata_rows)
                 ELSE metadata_rows,
        shares |-> shares,
        currency |-> currency]

\* lines 853-865, 888-889: the rows of sheet Shares whose Date parses
LoadShares(rows) ==
    Pick([i \in 1..Len(rows) |->
            [Date |-> to_datetime_dmy(rows[i].Date),
             v |-> [s \in StockSet |->
                      [val |-> to_numeric(rows[i].v[s].val), conv |-> rows[i].v[s].conv]]]],
         {i \in 1..Len(rows) : ~IsNull(to_datetime_dmy(rows[i].Date))}, 1)

\* lines 874, 892-893: the rows of sheet Currency, every one of them
LoadCurrency(rows) == DateParsed(rows)

\* (a read whose failure is not caught)
ReadWorkbookUncaught(unreadable, shares_rows, currency_rows) ==
    [raised |-> unreadable,
     shares |-> IF unreadable THEN <<>> ELSE LoadShares(shares_rows),
     currency |-> IF unreadable THEN <<>> ELSE LoadCurrency(currency_rows)]

\* lines 850-882: the two sheets as loaded; a read that fails is caught
\* (line 876) and leaves both tables empty
ReadWorkbook(unreadable, shares_rows, currency_rows) ==
    [raised |-> FALSE,
     shares |-> IF unreadable THEN <<>> ELSE LoadShares(shares_rows),
     currency |-> IF unreadable THEN <<>> ELSE LoadCurrency(currency_rows)]

\* ------------------------------------------ generate_company_specific_files
\* (a mask that leaves out the test rate > 0)
ProjectedCellAnyRate(eur, rate) ==
    IF eur # NaN /\ rate # NaN THEN RoundDiv(eur * rate, 10000) ELSE NaN

\* lines 804-814: the price in a currency, absent unless the EUR price and the
\* rate are there and the rate is positive
ProjectedCell(eur, rate) ==
    IF eur # NaN /\ rate # NaN /\ rate > 0 THEN RoundDiv(eur * rate, 10000) ELSE NaN

\* line 796: the rate of a currency on the row of the rate table that carries
\* the date (left merge on Date), absent when no row does
RateOn(currency_ratios, date, c) ==
    LET rows == {j \in 1..Len(currency_ratios) : currency_ratios[j].Date = date}
    IN IF rows = {} THEN NaN ELSE to_numeric(currency_ratios[SetMin(rows)].v[c])

\* lines 775-814: the projection of one instrument
Projection(s, data_rows, currency_ratios) ==
    [i \in 1..Len(data_rows) |->
        LET eur == to_numeric(data_rows[i].v[s].val)
        IN [Date |-> data_rows[i].Date,
            EUR |-> eur,
            v |-> [c \in CurrencySet |->
                     ProjectedCell(eur, RateOn(currency_ratios, data_rows[i].Date, c))]]]

\* the row under the header is the company row (read_excel(..., header=1))
IsCompanyRow(r) == "label" \in DOMAIN r /\ r.label = "Company"

\* generate_company_specific_files on a workbook whose sheet Shares holds
\* `base` under its header and whose sheet Currency holds `currency_ratios`
\* (none when empty): the statistics and the files written.  Without the
\* company row in its place every column is taken for a company and the Date
\* column 'Company' is not found (line 778), which fails them all.
generate_company_specific_files(base, currency_ratios) ==
    LET readable == Len(base) >= 1 /\ Len(currency_ratios) >= 1
        proper == readable /\ IsCompanyRow(base[1])
        found == IF ~readable THEN 0
                 ELSE IF proper THEN Len(STOCKS) ELSE 1 + Len(STOCKS)
        data_rows == SubSeq(base, 3, Len(base))
    IN [stats |-> [companies_found |-> found,
                   files_created |-> IF proper THEN Len(STOCKS) ELSE 0,
                   files_failed |-> IF proper THEN 0 ELSE found],
        files |-> [s \in IF proper THEN StockSet ELSE {} |->
                     Projection(s, data_rows, currency_ratios)]]

\* ------------------------------------------- generate_final_report_and_exit
\* lines 1212-1283: 1 on a functional failure, else 0 under GITHUB_ACTIONS,
\* else -1: the function returns to its caller
generate_final_report_and_exit(new_records, currency_updates, gaps_filled, company_file_stats, data_was_current, github) ==
    IF \/ ~data_was_current /\ new_records = 0
       \/ ~data_was_current /\ currency_updates = 0 /\ gaps_filled = 0
       \/ company_file_stats.files_failed > 0
       \/ company_file_stats.files_created = 0
    THEN 1
    ELSE IF github THEN 0 ELSE -1

\* ---- step 1 and 2 (lines 846-899): load the workbook, find the last date
Load ==
    /\ pc = "start"
    /\ LET r == ReadWorkbook("READ" \in failing, persistedMeta \o persistedShares,
                             persistedCurrency)
           shares == r.shares
           currency == r.currency
           last_s == MaxOrd(shares)
           last_c == MaxOrd(currency)
       IN /\ shares_df' = shares
          /\ currency_df' = currency
          /\ last_date' = IF last_s > 0 /\ last_c > 0
                            THEN (IF last_s < last_c THEN last_s ELSE last_c)
                          ELSE IF last_s > 0 THEN last_s
                          ELSE IF last_c > 0 THEN last_c
                          ELSE today - (DAYS_THRESHOLD + 1)
          /\ pc' = IF r.raised THEN "crashed" ELSE "fill_stock"
          /\ hist' = [hist EXCEPT !.columns = ColumnsOf(currency)]
    /\ UNCHANGED <<run, provVars, fileVars, gap_stats, currency_gap_stats,
                   new_stock_records, new_currency_data, shares_df_updated,
                   currency_df_updated, conversion_stats, arg, ret>>

\* ---- step 2.5 (lines 905-906)
FillStock ==
    /\ pc = "fill_stock"
    /\ LET r == fill_missing_stock_data(shares_df, currency_df, LOOKBACK_DAYS)
       IN IF Len(shares_df) = 0
          THEN /\ pc' = "fill_currency"
               /\ UNCHANGED <<shares_df, gap_stats, hist>>
          ELSE /\ pc' = IF r.raised THEN "crashed" ELSE "fill_currency"
               /\ shares_df' = r.df
               /\ gap_stats' = r.stats
               /\ hist' = [hist EXCEPT !.conversions = @ + Cardinality(r.converted)]
    /\ UNCHANGED <<run, provVars, fileVars, currency_df, last_date, currency_gap_stats,
                   new_stock_records, new_currency_data, shares_df_updated,
                   currency_df_updated, conversion_stats, arg, ret>>

\* ---- step 2.6 (lines 909-910)
FillCurrency ==
    /\ pc = "fill_currency"
    /\ LET r == fill_missing_currency_data(currency_df, LOOKBACK_DAYS)
       IN IF Len(currency_df) = 0
          THEN /\ pc' = "save_gaps"
               /\ UNCHANGED <<currency_df, currency_gap_stats, hist>>
          ELSE /\ pc' = IF r.raised THEN "crashed" ELSE "save_gaps"
               /\ currency_df' = r.df
               /\ currency_gap_stats' = r.stats
               /\ hist' = [hist EXCEPT !.rate_filled = TRUE]
    /\ UNCHANGED <<run, provVars, fileVars, shares_df, last_date, gap_stats,
                   new_stock_records, new_currency_data, shares_df_updated,
                   currency_df_updated, conversion_stats, arg, ret>>

\* ---- lines 912-928: the gap-filled tables are saved at once
SaveGapFilled ==
    /\ pc = "save_gaps"
    /\ IF gap_stats.filled > 0 \/ currency_gap_stats.filled > 0
       THEN LET w == write_excel_with_metadata(DateAsText(shares_df),
                                               DateAsText(currency_df))
            IN /\ persistedMeta' = w.meta
               /\ persistedShares' = w.shares
               /\ persistedCurrency' = w.currency
       ELSE UNCHANGED fileVars
    /\ pc' = "check"
    /\ UNCHANGED <<run, provVars, mainVars, arg, ret, hist>>

\* ---- step 3 (lines 931-948): nothing to fetch when the data is current.
\* generate_final_report_and_exit ends the process when a company file failed
\* or when GITHUB_ACTIONS is set; otherwise it returns and main() goes on.
CheckUpToDate ==
    /\ pc = "check"
    /\ IF today - last_date < DAYS_THRESHOLD
       THEN IF Len(currency_df) > 0 /\ ~HasDt(currency_df)
            THEN pc' = "crashed" /\ hist' = [hist EXCEPT !.current = TRUE]
            ELSE \E github \in BOOLEAN :
                    LET g == generate_company_specific_files(
                                 persistedMeta \o persistedShares, persistedCurrency)
                        code == generate_final_report_and_exit(
                                    0, 0, gap_stats.filled + currency_gap_stats.filled,
                                    g.stats, TRUE, github)
                    IN /\ pc' = IF code = -1 THEN "fetch_stocks" ELSE "done"
                       /\ hist' = [hist EXCEPT !.exit = code,
                                               !.current = TRUE,
                                               !.files_created = g.stats.files_created]
       ELSE /\ pc' = "fetch_stocks"
            /\ hist' = [hist EXCEPT !.attempted = TRUE]
    /\ UNCHANGED <<run, provVars, fileVars, mainVars, arg, ret>>

\* lines 967-982: the closes of one stock go into the record of their date
RECURSIVE AddRecords(_, _, _)
AddRecords(records, stock_name, dates) ==
    IF dates = <<>> THEN records
    ELSE LET date_str == strftime_dmy(TsOfOrd(Head(dates)))
             close_price == Cell(ClosePrice(TickerOf(stock_name), Head(dates)))
             found == {i \in 1..Len(records) : records[i].Date = date_str}
             next == IF found = {}
                     THEN Append(records,
                                 [Date |-> date_str,
                                  v |-> [s \in StockSet |->
                                           IF s = stock_name THEN close_price ELSE NoCell]])
                     ELSE [records EXCEPT ![SetMin(found)].v[stock_name] = close_price]
         IN AddRecords(next, stock_name, Tail(dates))

\* lines 956-990: every stock in turn, a failing download skipped
RECURSIVE FetchAll(_, _)
FetchAll(records, n) ==
    IF n > Len(STOCKS) THEN records
    ELSE LET ticker == TickerOf(STOCKS[n])
             stock_data == IF ticker \in failing THEN {}
                           ELSE yf_download(stockAvail, ticker, last_date + 1, today + 1)
         IN FetchAll(AddRecords(records, STOCKS[n], Ascending(stock_data)), n + 1)

\* ---- step 4 (lines 953-990)
FetchStocks ==
    /\ pc = "fetch_stocks"
    /\ new_stock_records' = FetchAll(<<>>, 1)
    /\ pc' = "fetch_currency"
    /\ UNCHANGED <<run, provVars, fileVars, shares_df, currency_df, last_date, gap_stats,
                   currency_gap_stats, new_currency_data, shares_df_updated,
                   currency_df_updated, conversion_stats, arg, ret, hist>>

\* the rate of the snapshot API for a currency (currency_rates[currency_code])
SnapshotRate(c) == IF c = "USD" THEN 10777 ELSE 8555

\* lines 1028-1045: today's rate of one currency, NaN when there is none
TodayRate(c) ==
    LET ticker == get_yfinance_ticker(c)
    IN IF ticker \in failing THEN SnapshotRate(c)
       ELSE IF yf_download(fxAvail, ticker, today, today + 1) = {} THEN NaN
       ELSE CloseRate(ticker, today)

\* ---- step 5 (lines 993-1067): today's currency row
FetchCurrency ==
    /\ pc = "fetch_currency"
    /\ LET today_str == strftime_dmy(TsOfOrd(today))
           existing_currencies == ExistingCurrencies(currency_df)
           has_today == \E i \in 1..Len(currency_df) :
                            DateAsText(currency_df)[i].Date = today_str
           currency_row == [Date |-> today_str,
                            v |-> [c \in CurrencySet |->
                                     IF c \in existing_currencies THEN TodayRate(c) ELSE NaN]]
           currencies_added == Cardinality({c \in CurrencySet : currency_row.v[c] # NaN})
           queried == IF "API" \in failing \/ Weekday(today) >= 5 \/ has_today
                      THEN {} ELSE existing_currencies
       IN /\ new_currency_data' =
                IF queried = {} \/ currencies_added = 0 THEN <<>> ELSE <<currency_row>>
          /\ hist' = [hist EXCEPT
                        !.fx_queried = queried,
                        !.snapshot_for =
                            {c \in queried : get_yfinance_ticker(c) \in failing}]
    /\ pc' = "merge"
    /\ UNCHANGED <<run, provVars, fileVars, shares_df, currency_df, last_date, gap_stats,
                   currency_gap_stats, new_stock_records, shares_df_updated,
                   currency_df_updated, conversion_stats, arg, ret>>

\* ---- step 6 (lines 1070-1095): merge, or return when nothing is new
Merge ==
    /\ pc = "merge"
    /\ IF new_stock_records = <<>> /\ new_currency_data = <<>>
       THEN /\ pc' = "done"
            /\ hist' = [hist EXCEPT !.exit = 0]
            /\ UNCHANGED <<shares_df, currency_df, shares_df_updated,
                           currency_df_updated>>
       ELSE /\ pc' = "fill_currency_2"
            /\ shares_df' = DateAsText(shares_df)
            /\ currency_df' = DateAsText(currency_df)
            /\ shares_df_updated' = MergeKeepLast(DateAsText(shares_df), new_stock_records)
            /\ currency_df_updated' =
                   MergeKeepLast(DateAsText(currency_df), new_currency_data)
            /\ hist' = [hist EXCEPT !.merged = TRUE]
    /\ UNCHANGED <<run, provVars, fileVars, last_date, gap_stats, currency_gap_stats,
                   new_stock_records, new_currency_data, conversion_stats, arg, ret>>

\* ---- step 6.3 (lines 1099-1105)
FillCurrency2 ==
    /\ pc = "fill_currency_2"
    /\ LET r == fill_missing_currency_data(currency_df_updated, LOOKBACK_DAYS)
       IN /\ pc' = IF r.raised THEN "crashed" ELSE "convert"
          /\ currency_df_updated' = r.df
          /\ currency_gap_stats' =
                 IF r.stats.filled > 0
                 THEN [filled |-> currency_gap_stats.filled + r.stats.filled,
                       skipped |-> currency_gap_stats.skipped + r.stats.skipped]
                 ELSE currency_gap_stats
    /\ hist' = [hist EXCEPT !.rate_filled = TRUE]
    /\ UNCHANGED <<run, provVars, fileVars, shares_df, currency_df, last_date, gap_stats,
                   new_stock_records, new_currency_data, shares_df_updated,
                   conversion_stats, arg, ret>>

\* (a conversion loop that runs over every row of the merged table)
RecordsToConvertAll(existing, new_records) == existing \o new_records

\* line 1112: the conversion loop runs over new_stock_records only
RecordsToConvert(existing, new_records) == new_records

\* lines 1112-1129: the USD prices of the records, converted with the rate as
\* of the record's date when there is one
ConvertRecords(records, cur) ==
    [i \in 1..Len(records) |->
        LET usd_eur_rate == get_usd_to_eur_rate(cur, records[i].Date)
        IN [Date |-> records[i].Date,
            v |-> [s \in StockSet |->
                     LET c == records[i].v[s]
                     IN IF s \in USD_STOCKS /\ notna(c) /\ usd_eur_rate.k = "rate"
                        THEN [val |-> convert_usd_to_eur(c.val, usd_eur_rate),
                              conv |-> c.conv + 1]
                        ELSE c]]]

\* ---- step 6.5 (lines 1107-1135): convert the new records, rebuild the merge
ConvertNew ==
    /\ pc = "convert"
    /\ LET scope == RecordsToConvert(shares_df, new_stock_records)
           rate(i) == get_usd_to_eur_rate(currency_df_updated, scope[i].Date)
           priced == {<<i, s>> \in (1..Len(scope)) \X USD_STOCKS : notna(scope[i].v[s])}
           converted == {c \in priced : rate(c[1]).k = "rate"}
           records == ConvertRecords(scope, currency_df_updated)
       IN IF \E i \in 1..Len(scope) : rate(i).k = "raise"
          THEN /\ pc' = "crashed"
               /\ UNCHANGED <<new_stock_records, shares_df_updated, conversion_stats, hist>>
          ELSE /\ pc' = "persist"
               /\ new_stock_records' = records
               /\ shares_df_updated' = IF new_stock_records # <<>>
                                         THEN MergeKeepLast(shares_df, records)
                                         ELSE shares_df_updated
               /\ conversion_stats' =
                      [converted |-> Cardinality(converted),
                       skipped_no_rate |-> Cardinality(priced \ converted),
                       skipped_missing_price |-> 0]
               /\ hist' = [hist EXCEPT !.conversions = @ + Cardinality(converted)]
    /\ UNCHANGED <<run, provVars, fileVars, shares_df, currency_df, last_date, gap_stats,
                   currency_gap_stats, new_currency_data, currency_df_updated, arg, ret>>

\* ---- steps 7-9 (lines 1144-1179): the merged tables replace the workbook,
\* the projection files are written and the report ends the run
Persist ==
    /\ pc = "persist"
    /\ LET w == write_excel_with_metadata(DateAsText(shares_df_updated),
                                          DateAsText(currency_df_updated))
           g == generate_company_specific_files(w.meta \o w.shares, w.currency)
           code == generate_final_report_and_exit(
                       Len(new_stock_records), Len(new_currency_data),
                       gap_stats.filled + currency_gap_stats.filled,
                       g.stats, FALSE, TRUE)
       IN /\ persistedMeta' = w.meta
          /\ persistedShares' = w.shares
          /\ persistedCurrency' = w.currency
          /\ hist' = [hist EXCEPT !.exit = code, !.files_created = g.stats.files_created]
    /\ pc' = "done"
    /\ UNCHANGED <<run, provVars, mainVars, arg, ret>>

\* the stored values of a price table, without the conversion counters
Vals(df) ==
    [i \in 1..Len(df) |-> [Date |-> df[i].Date, v |-> [s \in StockSet |-> df[i].v[s].val]]]

\* ---- the workflow starts main() again, the same day or the next
NextRun ==
    /\ pc \in {"done", "crashed"}
    /\ run < MaxRuns
    /\ run' = run + 1
    /\ pc' = "start"
    /\ today' \in {o \in {today, today + 1} : o <= LastDay}
    /\ failing' \in {failing, {}}
    /\ shares_df' = <<>> /\ currency_df' = <<>> /\ last_date' = 0
    /\ gap_stats' = NoStats /\ currency_gap_stats' = NoStats
    /\ new_stock_records' = <<>> /\ new_currency_data' = <<>>
    /\ shares_df_updated' = <<>> /\ currency_df_updated' = <<>>
    /\ conversion_stats' = NoConversions
    /\ hist' = NewHist([shares |-> Vals(persistedShares), currency |-> persistedCurrency,
                        today |-> today, failing |-> failing, ok |-> pc = "done",
                        conversions |-> hist.conversions])
    /\ UNCHANGED <<pandas2, stockAvail, fxAvail, fileVars, arg, ret>>

\* weekdays of a period
Weekdays(a, b) == {o \in a..b : Weekday(o) < 5}

\* the Shares sheet a run may find: an old row and a row per weekday from
\* 8 January to its last day, one row or one cell possibly missing; the
\* prices of the USD stocks were converted when they were stored
StoredShares(last, miss, holes) ==
    LET t == SharesTable(({2} \cup Weekdays(8, last)) \ miss, holes)
    IN [i \in 1..Len(t) |->
          [Date |-> strftime_dmy(t[i].Date),
           v |-> [s \in StockSet |->
                    IF s \in USD_STOCKS /\ notna(t[i].v[s])
                    THEN [val |-> t[i].v[s].val, conv |-> 1] ELSE t[i].v[s]]]]

StoredCurrency(last, miss) == AsText(RatesTable(({2} \cup Weekdays(8, last)) \ miss))

\* what a run may find down: nothing, one stock ticker, one fx ticker, the
\* snapshot service ("API"), the provider for every stock, the metadata write
\* of the workbook ("XLSX"), the read of the workbook ("READ")
Outages == {{}, {"IBM"}, {"EURUSD=X"}, {"API"}, {"ALV.DE", "IBM"}, {"XLSX"}, {"READ"}}

Init ==
    /\ pc = "start" /\ run = 1
    /\ today \in {13, LastDay}
    /\ pandas2 \in BOOLEAN
    /\ failing \in Outages
    /\ \E h \in {<<{}, {}>>, <<{}, {10}>>, <<{13}, {}>>} :
          stockAvail = [t \in {"ALV.DE", "IBM"} |->
                          IF t = "IBM" THEN Weekdays(8, LastDay) \ h[2]
                          ELSE Weekdays(8, LastDay) \ h[1]]
    /\ \E h \in {<<{}, {}>>, <<{13}, {}>>, <<{13, LastDay}, {13, LastDay}>>} :
          fxAvail = [t \in {"EURUSD=X", "EURGBP=X"} |->
                        IF t = "EURUSD=X" THEN Weekdays(8, LastDay) \ h[1]
                        ELSE Weekdays(8, LastDay) \ h[2]]
    /\ persistedMeta = DefaultMeta
    /\ \E last \in {10, 13} :
       \E gap \in {<<{}, {}>>, <<{9}, {}>>, <<{}, {<<9, "IBM Share">>}>>} :
          persistedShares = StoredShares(last, gap[1], gap[2])
    /\ persistedCurrency \in
          {StoredCurrency(9, {}), StoredCurrency(10, {9}), StoredCurrency(13, {}),
           AsText(RatesTable(Weekdays(2, 13)))}
    /\ shares_df = <<>> /\ currency_df = <<>>
    /\ LocalsIdle
    /\ arg = 0 /\ ret = 0
    /\ hist = NewHist([shares |-> <<>>, currency |-> <<>>, today |-> 0, failing |-> {},
                       ok |-> FALSE, conversions |-> 0])

Next ==
    \/ Load \/ FillStock \/ FillCurrency \/ SaveGapFilled \/ CheckUpToDate
    \/ FetchStocks \/ FetchCurrency \/ Merge \/ FillCurrency2 \/ ConvertNew
    \/ Persist \/ NextRun

Spec == Init /\ [][Next]_vars

\* ------------------------------------------------------------- claims on main
\* every price cell a run holds or has stored
PriceTables == <<persistedShares, shares_df, shares_df_updated, new_stock_records>>

\* C2: no price has been converted more than once, whatever the runs so far:
\* a price of a USD stock loaded from the workbook is never converted again,
\* and a price of a EUR stock is never converted at all.
C2_ConvertedOnce ==
    \A t \in 1..Len(PriceTables) : \A i \in 1..Len(PriceTables[t]) : \A s \in StockSet :
        /\ PriceTables[t][i].v[s].conv <= 1
        /\ s \notin USD_STOCKS => PriceTables[t][i].v[s].conv = 0

\* a second run has merged and stored its records after a run that converted
C2_Witness ==
    /\ run > 1 /\ pc = "done" /\ hist.merged
    /\ hist.prev.ok /\ hist.prev.conversions > 0
    /\ hist.conversions > 0
    /\ \E i \in 1..Len(persistedShares) : \E s \in USD_STOCKS :
          persistedShares[i].v[s].conv = 1

\* C3: a conversion is done only once the rate table has been gap-filled in
\* this run (gap-filling is complete before any conversion begins).
C3_GapFillBeforeConversion ==
    hist.conversions > 0 => hist.rate_filled

\* C4: a run that ends on the same day and against the same provider as the
\* run before it leaves the stored price and rate tables as that run left them.
C4_Idempotent ==
    (/\ run > 1 /\ pc \in {"done", "crashed"}
     /\ hist.prev.ok /\ hist.prev.today = today /\ hist.prev.failing = failing)
    => /\ Vals(persistedShares) = hist.prev.shares
       /\ persistedCurrency = hist.prev.currency

\* the rows of a table that carry a date
RowsDated(df, d) == {i \in 1..Len(df) : df[i].Date = d}

\* the merged table holds each date of its inputs once, with the last row
\* supplied for it, and nothing else
LastWins(existing, incoming, merged) ==
    LET all == existing \o incoming
    IN /\ \A i \in 1..Len(merged) : RowsDated(merged, merged[i].Date) = {i}
       /\ \A i \in 1..Len(merged) : RowsDated(all, merged[i].Date) # {}
       /\ \A j \in 1..Len(all) :
             \E i \in 1..Len(merged) :
                 merged[i] = all[SeqMax(RowsDated(all, all[j].Date))]

\* C5: after the merge of step 6, and after the merge is rebuilt from the
\* converted records, each date is held once and the incoming record wins.
C5_MergeKeepsLast ==
    /\ pc = "fill_currency_2" =>
          /\ LastWins(shares_df, new_stock_records, shares_df_updated)
          /\ LastWins(currency_df, new_currency_data, currency_df_updated)
    /\ (pc = "persist" /\ new_stock_records # <<>>) =>
          LastWins(shares_df, new_stock_records, shares_df_updated)

\* a fetched record carries a date the stored table already has, with
\* another price
C5_Witness ==
    /\ pc = "fill_currency_2"
    /\ \E i \in 1..Len(shares_df) : \E j \in 1..Len(new_stock_records) :
          /\ shares_df[i].Date = new_stock_records[j].Date
          /\ shares_df[i] # new_stock_records[j]

\* the rate table holds a row for today when step 5 looks (lines 1013-1020)
C11_HasToday ==
    \E i \in 1..Len(currency_df) :
        DateAsText(currency_df)[i].Date = strftime_dmy(TsOfOrd(today))

\* C11: in the new-data step no single failure, that of the snapshot service
\* included, keeps the historical provider from being asked for today's rate
\* of every tracked currency (on a weekday whose row is not there yet); the
\* snapshot rate is only a fallback, for today's row and for a currency whose
\* historical download failed.
C11_AllCurrenciesAttempted ==
    pc = "merge" =>
        /\ (Weekday(today) < 5 /\ Len(currency_df) > 0 /\ ~C11_HasToday) =>
              hist.fx_queried = CurrencySet
        /\ hist.snapshot_for \subseteq {c \in CurrencySet : get_yfinance_ticker(c) \in failing}
        /\ \A i \in 1..Len(new_currency_data) :
              new_currency_data[i].Date = strftime_dmy(TsOfOrd(today))

\* C12: a run that attempted an update and ended without a technical error,
\* but obtained no new stock record, no rate update and filled no gap, or
\* produced no projection file, ends with exit code 1.
C12_FunctionalFailureSignalled ==
    (/\ pc = "done" /\ hist.attempted
     /\ \/ /\ new_stock_records = <<>> /\ new_currency_data = <<>>
           /\ gap_stats.filled + currency_gap_stats.filled = 0
        \/ hist.files_created = 0)
    => hist.exit = 1

\* the filled USD prices for which the rate table had no rate as of the row's
\* date (lines 596-598: usd_eur_rate is None)
FS_NoRate ==
    {c \in ret.filled :
        /\ c[2] \in USD_STOCKS
        /\ get_usd_to_eur_rate(currency_df, shares_df[c[1]].Date).k = "none"}

\* what a statistics record holds under 'skipped_no_rate' (line 1109), the
\* count of prices left unconverted for want of a rate
NoRateRecorded(stats) ==
    IF "skipped_no_rate" \in DOMAIN stats THEN stats.skipped_no_rate ELSE 0

\* C13: a gap-filled USD price with no as-of rate is stored as the provider
\* gave it, its row kept, and is counted in the statistics the call returns
\* as a price with no rate available.
C13_NoRateRecorded ==
    pc = "fill_stock_done" =>
        /\ Len(ret.df) = Len(shares_df)
        /\ \A c \in FS_NoRate :
              ret.df[c[1]].v[c[2]] = Cell(ClosePrice(TickerOf(c[2]), ret.days[c]))
        /\ Cardinality(FS_NoRate) <= NoRateRecorded(ret.stats)

\* ------------------------------------------- convert_usd_to_eur on its own
\* prices in cents up to MaxCents and the price 100.00; no rate, the rate
\* 0.92 and the rates 1 / USD of a rate table
MaxCents == 40
ConvertPrices == {NaN, 10000} \cup (0..MaxCents)
ConvertRates == {NoRate, Rate(92, 100)} \cup {Rate(10000, usd) : usd \in {10850, 10910, 9700}}

InitConvert ==
    /\ pc = "convert_call" /\ run = 0
    /\ NoProvider
    /\ persistedMeta = <<>> /\ persistedShares = <<>> /\ persistedCurrency = <<>>
    /\ shares_df = <<>> /\ currency_df = <<>> /\ LocalsIdle
    /\ arg \in [usd_price : ConvertPrices, exchange_rate : ConvertRates]
    /\ ret = NaN
    /\ hist = <<>>

ConvertCall ==
    /\ pc = "convert_call"
    /\ ret' = convert_usd_to_eur(arg.usd_price, arg.exchange_rate)
    /\ pc' = "convert_done"
    /\ UNCHANGED <<run, provVars, fileVars, mainVars, arg, hist>>

NextConvert == ConvertCall

SpecConvert == InitConvert /\ [][NextConvert]_vars

\* C14: with a rate and a price present, convert_usd_to_eur returns the cent
\* nearest to price * rate, and 100.00 USD at the rate 0.92 gives 92.00.
C14_NearestCent ==
    (pc = "convert_done" /\ arg.exchange_rate.k = "rate" /\ arg.usd_price # NaN) =>
        LET exact == arg.usd_price * arg.exchange_rate.num
            den == arg.exchange_rate.den
            off == IF ret * den >= exact THEN ret * den - exact ELSE exact - ret * den
        IN /\ 2 * off <= den
           /\ (arg.usd_price = 10000 /\ arg.exchange_rate = Rate(92, 100)) => ret = 9200

\* 100.00 USD has been converted at 0.92
C14_Witness ==
    /\ pc = "convert_done"
    /\ arg = [usd_price |-> 10000, exchange_rate |-> Rate(92, 100)]
    /\ ret = 9200

\* ------------------------------- generate_company_specific_files on its own
\* a workbook with the two metadata rows, data rows on 8 and 9 January whose
\* price cells are empty, text or 312.50, and a rate sheet with a row for the
\* first or for both of these days whose cells are empty, 0, text or 1.0850
FilesDays == <<8, 9>>
FilesPrices == {NaN, Junk, 31250}
FilesRates == {NaN, 0, Junk, 10850}

InitCompanyFiles ==
    /\ pc = "files_call" /\ run = 0
    /\ NoProvider
    /\ persistedMeta = DefaultMeta
    /\ \E e \in [1..Len(FilesDays) -> [StockSet -> FilesPrices]] :
          persistedShares =
              [i \in 1..Len(FilesDays) |->
                  [Date |-> strftime_dmy(TsOfOrd(FilesDays[i])),
                   v |-> [s \in StockSet |-> Cell(e[i][s])]]]
    /\ \E n \in 1..Len(FilesDays) : \E r \in [1..n -> [CurrencySet -> FilesRates]] :
          persistedCurrency =
              [i \in 1..n |-> [Date |-> strftime_dmy(TsOfOrd(FilesDays[i])), v |-> r[i]]]
    /\ shares_df = <<>> /\ currency_df = <<>> /\ LocalsIdle
    /\ arg = <<>>
    /\ ret = <<>>
    /\ hist = <<>>

CompanyFilesCall ==
    /\ pc = "files_call"
    /\ ret' = generate_company_specific_files(persistedMeta \o persistedShares,
                                              persistedCurrency)
    /\ pc' = "files_done"
    /\ UNCHANGED <<run, provVars, fileVars, mainVars, arg, hist>>

NextCompanyFiles == CompanyFilesCall

SpecCompanyFiles == InitCompanyFiles /\ [][NextCompanyFiles]_vars

\* the numeric content of a cell of the workbook, and the rates the rate
\* sheet holds for a currency on a date
CF_Present(x) == x # NaN /\ x # Junk
CF_Rates(date, c) ==
    {persistedCurrency[j].v[c] :
        j \in {k \in 1..Len(persistedCurrency) : persistedCurrency[k].Date = date}}

\* C15: in every projection the cell of a date and a currency holds the EUR
\* price times the rate, to the nearest cent, exactly when the EUR price of
\* the date is present and the rate of the date is present and positive; in
\* every other case the cell is absent, never a number.
C15_ValidityMask ==
    pc = "files_done" =>
        \A s \in DOMAIN ret.files :
            /\ Len(ret.files[s]) = Len(persistedShares)
            /\ \A i \in 1..Len(persistedShares) : \A c \in CurrencySet :
                  LET eur == persistedShares[i].v[s].val
                      rates == {r \in CF_Rates(persistedShares[i].Date, c) :
                                   CF_Present(r) /\ r > 0}
                      cell == ret.files[s][i].v[c]
                      off(r) == IF cell * 10000 >= eur * r
                                THEN cell * 10000 - eur * r ELSE eur * r - cell * 10000
                  IN /\ ret.files[s][i].Date = persistedShares[i].Date
                     /\ IF CF_Present(eur) /\ rates # {}
                        THEN cell # NaN /\ \A r \in rates : 2 * off(r) <= 10000
                        ELSE cell = NaN

\* a projection holds a converted price in one currency and, on the same row,
\* nothing in the currency whose rate is 0
C15_Witness ==
    /\ pc = "files_done"
    /\ \E s \in DOMAIN ret.files : \E i \in 1..Len(ret.files[s]) :
          /\ CF_Present(persistedShares[i].v[s].val)
          /\ ret.files[s][i].v["USD"] = 33906
          /\ CF_Rates(persistedShares[i].Date, "GBP") = {0}
          /\ ret.files[s][i].v["GBP"] = NaN

\* the instruments whose EUR column holds no number at all
CF_NoPrices ==
    {s \in StockSet : \A i \in 1..Len(persistedShares) : ~CF_Present(persistedShares[i].v[s].val)}

\* C16: an instrument whose EUR column is entirely absent or non-numeric gets
\* no projection file and adds one to the failure count, and every other
\* instrument still gets its file.
C16_FailureIsolation ==
    pc = "files_done" =>
        /\ \A s \in CF_NoPrices : s \notin DOMAIN ret.files
        /\ ret.stats.files_failed = Cardinality(CF_NoPrices)
        /\ \A s \in StockSet \ CF_NoPrices : s \in DOMAIN ret.files

\* the dated rows of a stored table follow each other in date order
DateAscending(rows) ==
    \A i, j \in 1..Len(rows) :
        LET a == OrdOf(to_datetime_dmy(rows[i].Date))
            b == OrdOf(to_datetime_dmy(rows[j].Date))
        IN (i < j /\ a > 0 /\ b > 0) => a <= b

\* C17: whatever a run has written, the rows of sheet Shares and the rows of
\* sheet Currency are stored in date-ascending order, in whatever order the
\* stored and the fetched records of the instruments were combined.
C17_PersistedAscending ==
    /\ DateAscending(persistedShares)
    /\ DateAscending(persistedCurrency)

\* C18: after any sequence of writes of the workbook, a fallback write
\* included, the company row and the ticker row of sheet Shares are in their
\* place and are what they were, and no data row stands in the place of a
\* metadata row.
C18_MetadataPreserved ==
    persistedMeta = DefaultMeta

\* ------------------------------------------------- the load step on its own
\* a workbook whose two sheets hold a well-formed row for 8 January and a
\* second row whose Date cell is 09-01-2025 or text that is no date and whose
\* value cells are empty, text or a number
LoadDates == {strftime_dmy(TsOfOrd(9)), NoText}

InitLoad ==
    /\ pc = "start" /\ run = 1
    /\ NoProvider
    /\ persistedMeta = DefaultMeta
    /\ \E d \in LoadDates, a, b \in {NaN, Junk, 30009} :
          persistedShares =
              <<[Date |-> strftime_dmy(TsOfOrd(8)),
                 v |-> [s \in StockSet |-> Cell(30008)]],
                [Date |-> d,
                 v |-> [s \in StockSet |-> Cell(IF s = STOCKS[1] THEN a ELSE b)]]>>
    /\ \E d \in LoadDates, a \in {NaN, Junk, 10890}, b \in {Junk, 8509} :
          persistedCurrency =
              <<[Date |-> strftime_dmy(TsOfOrd(8)),
                 v |-> [c \in CurrencySet |-> IF c = "USD" THEN 10880 ELSE 8508]],
                [Date |-> d,
                 v |-> [c \in CurrencySet |-> IF c = "USD" THEN a ELSE b]]>>
    /\ shares_df = <<>> /\ currency_df = <<>> /\ LocalsIdle
    /\ arg = <<>>
    /\ ret = <<>>
    /\ hist = NewHist(<<>>)

NextLoad == Load

SpecLoad == InitLoad /\ [][NextLoad]_vars

\* the rows of a stored table whose Date cell parses
LD_Dated(rows) == {i \in 1..Len(rows) : ~IsNull(to_datetime_dmy(rows[i].Date))}

\* C19: after the load, neither table holds a row whose date did not parse,
\* every row whose date parses is there, and no value cell holds anything but
\* a number or nothing: this for the price table and the rate table alike.
C19_LoadFiltering ==
    pc = "fill_stock" =>
        /\ Len(shares_df) = Cardinality(LD_Dated(persistedShares))
        /\ \A i \in 1..Len(shares_df) :
              /\ ~IsNull(shares_df[i].Date)
              /\ \A s \in StockSet : shares_df[i].v[s].val # Junk
        /\ Len(currency_df) = Cardinality(LD_Dated(persistedCurrency))
        /\ \A i \in 1..Len(currency_df) :
              /\ ~IsNull(currency_df[i].Date)
              /\ \A c \in CurrencySet : currency_df[i].v[c] # Junk

\* C20: when the read of the workbook fails, the run goes on with an empty
\* price table and an empty rate table and passes through its remaining steps
\* without raising.
C20_ReadFailureDegrades ==
    "READ" \in failing =>
        /\ pc # "crashed"
        /\ pc \in {"fill_stock", "fill_currency", "save_gaps", "check",
                   "fetch_stocks", "fetch_currency", "merge"} =>
              shares_df = <<>> /\ currency_df = <<>>

\* a run whose read failed has fetched, merged and written new records and
\* has ended
C20_Witness ==
    /\ "READ" \in failing
    /\ pc = "done"
    /\ hist.merged
    /\ shares_df = <<>>
    /\ persistedShares # <<>>

\* ----------------------------------------------------- analyze_data_quality
\* lines 242-243: an instrument is stale after 3 days when its name holds
\* 'Allianz', after 5 days otherwise; line 270: the rate table after 1 day
StalenessThreshold(subject) ==
    IF subject = "Currency" THEN 1
    ELSE IF subject = "Allianz Share" THEN 3 ELSE 5

\* (a test that flags an age equal to the threshold)
IsStaleFrom(age, threshold) == age >= threshold

\* lines 243, 270: (end_date - last_date).days > threshold
IsStale(age, threshold) == age > threshold

\* lines 224-226: the latest date of a row in which the instrument has a
\* value, 0 (None) when it has none
LastObservation(shares_df_q, stock_name) ==
    LET S == {OrdOf(to_datetime_dmy(shares_df_q[i].Date)) :
                 i \in {j \in 1..Len(shares_df_q) : notna(shares_df_q[j].v[stock_name])}} \ {0}
    IN IF S = {} THEN 0 ELSE SeqMax(S)

\* (a test that also flags an instrument without any observation)
FlaggedOrEmpty(last, threshold) == last = 0 \/ IsStale(today - last, threshold)

\* line 243: `if last_date and (end_date - last_date).days > staleness_threshold`
Flagged(last, threshold) == last > 0 /\ IsStale(today - last, threshold)

\* lines 216-245: the entries the instruments add to data_gaps, in the order
\* of STOCKS
RECURSIVE StockGaps(_, _)
StockGaps(shares_df_q, n) ==
    IF n > Len(STOCKS) THEN <<>>
    ELSE LET last == LastObservation(shares_df_q, STOCKS[n])
         IN (IF Flagged(last, StalenessThreshold(STOCKS[n])) THEN <<STOCKS[n]>> ELSE <<>>)
            \o StockGaps(shares_df_q, n + 1)

\* analyze_data_quality (lines 184-294): the staleness of every instrument,
\* the entries of data_gaps (named by their subject) and the overall health
analyze_data_quality(shares_df_q, currency_df_q) ==
    LET latest_currency == MaxOrd(currency_df_q)
        currency_gap == IF /\ Len(currency_df_q) > 0 /\ latest_currency > 0
                           /\ IsStale(today - latest_currency, StalenessThreshold("Currency"))
                        THEN <<"Currency">> ELSE <<>>
        data_gaps == StockGaps(shares_df_q, 1) \o currency_gap
    IN [staleness_days |->
           [s \in StockSet |->
               LET last == LastObservation(shares_df_q, s)
               IN IF last > 0 THEN today - last ELSE 999],
        data_gaps |-> data_gaps,
        overall_health |-> IF Len(data_gaps) > 2 THEN "CRITICAL"
                           ELSE IF Len(data_gaps) > 0 THEN "WARNING"
                           ELSE "HEALTHY"]

\* the call on its own: a price table with rows on the days of QualityDays in
\* which each instrument has values up to some day or none at all, a rate
\* table that ends on some day or is empty, analysed on one of two days
QualityDays == {7, 8, 9, 10, 13}
QualityUpTo(d) == {o \in QualityDays : o <= d}

InitQuality ==
    /\ pc = "quality_call" /\ run = 0
    /\ today \in {13, LastDay} /\ pandas2 = FALSE /\ failing = {}
    /\ stockAvail = [t \in {TickerOf(x) : x \in StockSet} |-> {}]
    /\ fxAvail = [t \in {get_yfinance_ticker(c) : c \in CurrencySet} |-> {}]
    /\ persistedMeta = <<>> /\ persistedShares = <<>> /\ persistedCurrency = <<>>
    /\ \E last \in [StockSet -> {0} \cup QualityDays] :
          shares_df = SharesTable(QualityDays,
                                  {h \in QualityDays \X StockSet : h[1] > last[h[2]]})
    /\ \E d \in {0} \cup QualityDays : currency_df = RatesTable(QualityUpTo(d))
    /\ LocalsIdle
    /\ arg = <<>>
    /\ ret = <<>>
    /\ hist = <<>>

QualityCall ==
    /\ pc = "quality_call"
    /\ ret' = analyze_data_quality(shares_df, currency_df)
    /\ pc' = "quality_done"
    /\ UNCHANGED <<run, provVars, fileVars, mainVars, arg, hist>>

NextQuality == QualityCall

SpecQuality == InitQuality /\ [][NextQuality]_vars

\* the age in days of the last observation of a subject of the report, -1
\* when it has none
Q_Age(subject) ==
    LET days == IF subject = "Currency"
                THEN {OrdOf(currency_df[i].Date) : i \in 1..Len(currency_df)}
                ELSE {OrdOf(shares_df[i].Date) :
                         i \in {j \in 1..Len(shares_df) : shares_df[j].v[subject].val # NaN}}
    IN IF days = {} THEN -1 ELSE today - SeqMax(days)

Q_Flagged == {x \in StockSet \cup {"Currency"} : Q_Age(x) > StalenessThreshold(x)}

\* C21: every instrument, and the rate table, whose last observation is older
\* than its threshold adds one entry to data_gaps (3 days for Allianz: 4 days
\* old is flagged); the health is CRITICAL with three or more entries,
\* WARNING with one or two, HEALTHY with none.
C21_StalenessEscalation ==
    pc = "quality_done" =>
        /\ {ret.data_gaps[i] : i \in 1..Len(ret.data_gaps)} = Q_Flagged
        /\ Len(ret.data_gaps) = Cardinality(Q_Flagged)
        /\ ret.overall_health =
              IF Cardinality(Q_Flagged) >= 3 THEN "CRITICAL"
              ELSE IF Cardinality(Q_Flagged) >= 1 THEN "WARNING" ELSE "HEALTHY"
        /\ Q_Age("Allianz Share") = 4 => "Allianz Share" \in Q_Flagged

\* Allianz, 4 days old, is flagged with the two other subjects: CRITICAL
C21_Witness ==
    /\ pc = "quality_done"
    /\ Q_Age("Allianz Share") = 4
    /\ Len(ret.data_gaps) = 3
    /\ ret.overall_health = "CRITICAL"

\* the instruments whose column holds no value at all
Q_Empty == {s \in StockSet : Q_Age(s) = -1}

\* C30: an instrument without any observation is reported with staleness 999
\* and adds no entry to data_gaps, whatever its age would be; the health is
\* what the other subjects make it.
C30_EmptyColumnNotFlagged ==
    pc = "quality_done" =>
        /\ \A s \in Q_Empty :
              /\ ret.staleness_days[s] = 999
              /\ \A i \in 1..Len(ret.data_gaps) : ret.data_gaps[i] # s
        /\ (\A x \in (StockSet \cup {"Currency"}) \ Q_Empty :
               Q_Age(x) <= StalenessThreshold(x)) => ret.overall_health = "HEALTHY"

\* the report is HEALTHY while an instrument column is entirely empty
C30_Witness ==
    /\ pc = "quality_done"
    /\ Q_Empty # {}
    /\ Len(currency_df) > 0
    /\ ret.overall_health = "HEALTHY"

\* C22: a run that found its data current (last date less than DAYS_THRESHOLD
\* old) writes the projection files and the report and ends: it makes no
\* provider query for new stock or currency data and no further merge or
\* write, with or without GITHUB_ACTIONS.
C22_UpToDateShortCircuit ==
    hist.current =>
        /\ pc \in {"done", "crashed"}
        /\ ~hist.merged
        /\ hist.fx_queried = {}

\* the stored rows and the fetched records that carry the same date
Collisions ==
    {c \in (1..Len(shares_df)) \X (1..Len(new_stock_records)) :
        strftime_dmy(to_datetime_dmy(shares_df[c[1]].Date)) = new_stock_records[c[2]].Date}

\* C23: a fetched record replaces the stored row of its date as a whole: the
\* merged table holds for that date the cells of the record, an absent cell
\* where the record has none, whatever the stored row held.  Fetching starts
\* the day after the earlier of the two tables' last dates.
C23_MergeReplacesRows ==
    /\ pc \in {"fill_currency_2", "convert", "persist"} =>
          \A c \in Collisions :
              \A i \in RowsDated(shares_df_updated, new_stock_records[c[2]].Date) :
                  shares_df_updated[i].v = new_stock_records[c[2]].v
    /\ (pc = "fill_stock" /\ MaxOrd(shares_df) > 0 /\ MaxOrd(currency_df) > 0) =>
          /\ last_date <= MaxOrd(shares_df) /\ last_date <= MaxOrd(currency_df)
          /\ last_date \in {MaxOrd(shares_df), MaxOrd(currency_df)}
    /\ pc = "fetch_currency" =>
          \A j \in 1..Len(new_stock_records) :
              OrdOf(to_datetime_dmy(new_stock_records[j].Date)) > last_date

\* the rate table ended before the price table, a fetched record met a stored
\* row, and a price the stored row held is gone from the merged table
C23_Witness ==
    /\ pc = "persist"
    /\ last_date < MaxOrd(shares_df)
    /\ \E c \in Collisions : \E s \in StockSet :
          /\ notna(shares_df[c[1]].v[s])
          /\ ~notna(new_stock_records[c[2]].v[s])
          /\ \A i \in RowsDated(shares_df_updated, new_stock_records[c[2]].Date) :
                ~notna(shares_df_updated[i].v[s])
          /\ RowsDated(shares_df_updated, new_stock_records[c[2]].Date) # {}

\* C24: every row the rate table held before fill_missing_currency_data is
\* in the returned table with the same calendar date and the same rates: the
\* call only appends, and reading the Date column again never changes, swaps
\* or blanks the date of an existing row.
C24_OnlyAppends ==
    pc = "fill_currency_done" =>
        \A i \in 1..Len(currency_df) :
            \E j \in 1..Len(ret.df) :
                /\ to_datetime_dmy(ret.df[j].Date) = to_datetime_dmy(currency_df[i].Date)
                /\ ret.df[j].v = currency_df[i].v

\* C25: whichever way fill_missing_currency_data returned the Date column of
\* the rate table, as datetime values or as text, a run that finds its data
\* current goes on to the final report: no step raises on the column.
C25_NoFailureOnDateText ==
    hist.current => pc # "crashed"

\* C26: fill_missing_stock_data adds no row and removes none, leaves every
\* date and every cell that held a value as it was, and writes only cells
\* that were empty on rows dated within [M - W, M]; no date after M gets a
\* value.
C26_GapFillFrame ==
    pc = "fill_stock_done" =>
        /\ Len(ret.df) = Len(shares_df)
        /\ \A i \in 1..Len(shares_df) :
              /\ ret.df[i].Date = shares_df[i].Date
              /\ \A s \in StockSet :
                    /\ shares_df[i].v[s].val # NaN => ret.df[i].v[s] = shares_df[i].v[s]
                    /\ ret.df[i].v[s] # shares_df[i].v[s] =>
                          /\ FS_RowDay(i) >= FS_M - arg
                          /\ FS_RowDay(i) <= FS_M
        /\ \A i \in 1..Len(ret.df) : OrdOf(to_datetime_dmy(ret.df[i].Date)) <= FS_M

\* a gap was filled on a row that also holds a price, and the table has a row
\* older than the lookback period
C26_Witness ==
    /\ pc = "fill_stock_done"
    /\ \E i \in 1..Len(shares_df) : \E s, t \in StockSet :
          /\ shares_df[i].v[s].val = NaN /\ ret.df[i].v[s].val # NaN
          /\ shares_df[i].v[t].val # NaN
    /\ \E i \in 1..Len(shares_df) : FS_RowDay(i) < FS_M - arg

\* C27: during and after a run the rate table, and the row made for today,
\* have no currency column that the rate table loaded at the start of the run
\* did not have; a run that loaded an empty rate table keeps it empty,
\* writes it empty, and converts no USD price.
C27_CurrenciesNeverGrow ==
    pc # "start" =>
        /\ ColumnsOf(currency_df) \subseteq hist.columns
        /\ ColumnsOf(new_currency_data) \subseteq hist.columns
        /\ ColumnsOf(currency_df_updated) \subseteq hist.columns
        /\ hist.columns = {} =>
              /\ currency_df = <<>> /\ currency_df_updated = <<>>
              /\ hist.conversions = 0
              /\ (pc = "done" /\ hist.merged) => persistedCurrency = <<>>

\* a run that loaded no rate table has fetched a USD price, stored it as it
\* came and written an empty rate table
C27_Witness ==
    /\ pc = "done" /\ hist.merged
    /\ hist.columns = {}
    /\ persistedCurrency = <<>>
    /\ \E i \in 1..Len(persistedShares) : \E s \in USD_STOCKS :
          persistedShares[i].v[s].val # NaN /\ persistedShares[i].v[s].conv = 0

\* --------------------------- get_usd_to_eur_rate on tables with faulty cells
\* rows whose Date is a date or text that is no date, and whose USD cell is
\* empty, 0, text or a rate
LookupRowsAny ==
    {[Date |-> d, v |-> [c \in CurrencySet |-> IF c = "USD" THEN u ELSE 8500]] :
        d \in {Str(1, 1), Str(3, 1), NoText},
        u \in {NaN, 0, Junk, 10800}}

InitLookupAny ==
    /\ pc = "lookup" /\ run = 0
    /\ NoProvider
    /\ persistedMeta = <<>> /\ persistedShares = <<>> /\ persistedCurrency = <<>>
    /\ shares_df = <<>> /\ LocalsIdle
    /\ currency_df \in SeqsUpTo(LookupRowsAny, LookupMaxRows)
    /\ arg \in {Str(1, 1), Str(2, 1), Str(3, 1), NoText}
    /\ ret = NoRate
    /\ hist = <<>>

SpecLookupAny == InitLookupAny /\ [][NextLookup]_vars

\* C28: for every rate table and target date, get_usd_to_eur_rate returns a
\* positive rate or absent and does not raise, also when the USD rate of the
\* selected row is 0 and when a date of the table or the target does not
\* parse.
C28_LookupNeverFails ==
    pc = "lookup_done" =>
        /\ ret.k # "raise"
        /\ ret.k = "rate" => ret.num > 0 /\ ret.den > 0

\* the rows dated latest among those dated at or before the target
LookupLatest ==
    {i \in LookupCandidates :
        \A j \in LookupCandidates :
            OrdOf(to_datetime_dmy(currency_df[j].Date))
               <= OrdOf(to_datetime_dmy(currency_df[i].Date))}

\* C29: when the latest row dated at or before the target has no USD value,
\* the lookup returns absent, whatever USD rate an earlier row holds, and a
\* price converted with that answer is left as it is.
C29_NoFallbackToEarlierRow ==
    (/\ pc = "lookup_done"
     /\ LookupLatest # {}
     /\ \A i \in LookupLatest : currency_df[i].v["USD"] = NaN)
    => /\ ret = NoRate
       /\ convert_usd_to_eur(10000, ret) = 10000

\* the row of 3 January has no USD rate, the row of 1 January has one, and
\* the lookup for 4 January returned absent
C29_Witness ==
    /\ pc = "lookup_done"
    /\ arg = Str(4, 1)
    /\ ret = NoRate
    /\ \E i, j \in 1..Len(currency_df) :
          /\ currency_df[i].Date = Str(1, 1) /\ currency_df[i].v["USD"] # NaN
          /\ currency_df[j].Date = Str(3, 1) /\ currency_df[j].v["USD"] = NaN
    /\ \A j \in 1..Len(currency_df) :
          currency_df[j].Date = Str(3, 1) => currency_df[j].v["USD"] = NaN

====
